---- MODULE Spec2Model ----
(***************************************************************************)
(* Product-Grimoire: the per-product enrichment pipeline of                *)
(* src/Product-Grimoire.py (page search, image resolution, image download, *)
(* description generation) and the batch loop of main().                   *)
(*                                                                         *)
(* Strings are sequences of tokens.  A token is an atomic piece of text    *)
(* ("http://shop.test", "/", "w", ".jpg", "logo", ...): substring tests,   *)
(* lower(), strip(), find(), slicing, urljoin(), urlparse().path and       *)
(* os.path.splitext() are computed on the token sequence.  The absent      *)
(* value None is the one-token sequence None.                              *)
(***************************************************************************)
EXTENDS Integers, Sequences, FiniteSets, TLC

(***************************************************************************)
(* Bounds of the model.                                                    *)
(***************************************************************************)
MaxRows == 2
MaxImgs == 2
MaxMetas == 2
MaxTextLen == 4

(***************************************************************************)
(* Python values and string operations.                                    *)
(***************************************************************************)
None == <<"<None>">>

Falsy(s) == s = None \/ s = <<>>

LowerTok(t) ==
    CASE t = "LOGO" -> "logo"
      [] t = "LARGE" -> "large"
      [] t = "Zoom" -> "zoom"
      [] t = "ERRO" -> "erro"
      [] t = "Erro" -> "erro"
      [] t = ".SVG" -> ".svg"
      [] t = ".JPG" -> ".jpg"
      [] t = "Imagem" -> "imagem"
      [] t = "Não Encontrada" -> "não encontrada"
      [] t = "NÃO ENCONTRADA" -> "não encontrada"
      [] t = "IMAGEM" -> "imagem"
      [] OTHER -> t

StrLower(s) == [i \in DOMAIN s |-> LowerTok(s[i])]

\* Python `sub in s`
StrIn(sub, s) ==
    \E i \in 0..(Len(s) - Len(sub)) : SubSeq(s, i + 1, i + Len(sub)) = sub

\* Python s.find(sub): the 0-based index of the first occurrence, or -1
StrFind(s, sub) ==
    LET at == {i \in 0..(Len(s) - Len(sub)) : SubSeq(s, i + 1, i + Len(sub)) = sub}
    IN  IF at = {} THEN -1 ELSE CHOOSE i \in at : \A j \in at : i <= j

\* Python s[a:b] for a >= 0 and 0 <= b (b clipped to len(s)); empty when a >= b
StrSlice(s, a, b) ==
    LET hi == IF b > Len(s) THEN Len(s) ELSE b
    IN  IF a >= hi THEN <<>> ELSE SubSeq(s, a + 1, hi)

IsSpace(t) == t \in {" ", "\n"}

\* Python s.strip()
StrStrip(s) ==
    LET solid == {i \in DOMAIN s : ~IsSpace(s[i])}
    IN  IF solid = {} THEN <<>>
        ELSE LET lo == CHOOSE i \in solid : \A j \in solid : i <= j
                 hi == CHOOSE i \in solid : \A j \in solid : j <= i
             IN  SubSeq(s, lo, hi)

(***************************************************************************)
(* Configuration constants of the script.                                  *)
(***************************************************************************)
IMAGE_FOLDER == <<"imagens_produtos">>
OUTPUT_FILENAME == <<"produtos_formatados.xlsx">>
NOT_FOUND == <<"Imagem", " ", "não encontrada">>
DOWNLOAD_ERROR == <<"Erro", " ", "ao baixar imagem">>
PLACEHOLDER_URL == <<"https://placehold.co", "/", "600x400", "/", "eee", "/", "ccc", "?", "text=Imagem+Nao+Encontrada">>
ND == <<"N/D">>

(***************************************************************************)
(* URLs: urljoin, urlparse().path, os.path.splitext, os.path.join.         *)
(***************************************************************************)
SchemeToks == {"http://shop.test", "http://img.test", "https://placehold.co", "data:image/png;"}

HasScheme(u) == u # <<>> /\ u[1] \in SchemeToks

IsHttp(u) == u # <<>> /\ u[1] \in {"http://shop.test", "http://img.test", "https://placehold.co"}

\* the index of the first "?" or "#" of u, or Len(u) + 1
PathEnd(u) ==
    LET cut == {i \in DOMAIN u : u[i] \in {"?", "#"}}
    IN  IF cut = {} THEN Len(u) + 1 ELSE CHOOSE i \in cut : \A j \in cut : i <= j

\* variant: the query and fragment are not cut off the path
UrlPath_with_query(u) == IF HasScheme(u) THEN SubSeq(u, 2, Len(u)) ELSE u

\* urlparse(u).path
UrlPath(u) ==
    IF IsHttp(u) THEN SubSeq(u, 2, PathEnd(u) - 1)
    ELSE IF HasScheme(u) THEN SubSeq(u, 2, PathEnd(u) - 1)
    ELSE SubSeq(u, 1, PathEnd(u) - 1)

IsDotTok(t) == t \in {".jpg", ".JPG", ".png", ".svg", ".SVG", ".gif", ".webp"}

\* os.path.splitext(p)[1]: from the last dot of the last path component to the
\* end, a dot leading the component not counting
SplitExt(p) ==
    LET slashes == {i \in DOMAIN p : p[i] = "/"}
        base == IF slashes = {} THEN 1
                ELSE 1 + (CHOOSE i \in slashes : \A j \in slashes : j <= i)
        dots == {i \in DOMAIN p : i > base /\ IsDotTok(p[i])}
    IN  IF dots = {} THEN <<>>
        ELSE SubSeq(p, CHOOSE i \in dots : \A j \in dots : j <= i, Len(p))

\* os.path.join(folder, filename), filename relative
PathJoin(folder, filename) == folder \o <<"/">> \o filename

\* urljoin(base, ref), base an absolute http URL
UrlJoin(base, ref) ==
    IF HasScheme(ref) THEN ref
    ELSE IF ref # <<>> /\ ref[1] = "/" THEN <<base[1]>> \o ref
    ELSE LET bp == SubSeq(base, 1, PathEnd(base) - 1)
             slashes == {i \in DOMAIN bp : bp[i] = "/"}
             dir == IF slashes = {} THEN <<base[1], "/">>
                    ELSE SubSeq(bp, 1, CHOOSE i \in slashes : \A j \in slashes : j <= i)
         IN  IF ref = <<>> THEN base ELSE dir \o ref

(***************************************************************************)
(* search_product_page_url: one ranked web search, top result only.        *)
(* o is what service.cse().list(...).execute() does: it returns a result   *)
(* with items ("items", link), a result without items ("empty"), or raises *)
(* HttpError 429 ("http429"), another HttpError ("httperr") or any other   *)
(* exception ("exception").                                                *)
(***************************************************************************)
\* lines 66-70, the body of the try: "items" returns the link, an empty result
\* returns None, anything else is an exception on its way out
search_try(o, call) ==
    [ret |-> IF o.kind = "items" THEN o.link ELSE None,
     raised |-> o.kind \notin {"items", "empty"},
     calls |-> <<call>>]

\* lines 71-79: both handlers return None
search_product_page_url(o) ==
    LET r == search_try(o, "page_search")
    IN  IF r.raised THEN [r EXCEPT !.ret = None, !.raised = FALSE] ELSE r

(***************************************************************************)
(* search_google_images: the text-to-image fallback search.                *)
(***************************************************************************)
search_google_images(o) ==
    LET r == search_try(o, "image_search")
    IN  IF r.raised THEN [r EXCEPT !.ret = None, !.raised = FALSE] ELSE r

(***************************************************************************)
(* extract_image_url.  A parsed page is [imgs, metas]: imgs the <img>      *)
(* elements in document order, each [gallery, data_zoom, data_src, src]    *)
(* (gallery: it carries class ui-pdp-gallery__figure__image; an attribute  *)
(* that is absent is None); metas the content attributes of the            *)
(* <meta property="og:image"> elements in document order.                  *)
(***************************************************************************)
BLOCKLIST == {<<"logo">>, <<"icon">>, <<"avatar">>, <<"spinner">>, <<".svg">>, <<".gif">>, <<"base64">>}

\* variant: the test is made on src, not on src.lower()
Blocklisted_case_sensitive(src) == \E keyword \in BLOCKLIST : StrIn(keyword, src)

Blocklisted(src) == \E keyword \in BLOCKLIST : StrIn(keyword, StrLower(src))

\* soup.find(...): the first element, 0 when there is none
FirstIndex(S) == IF S = {} THEN 0 ELSE CHOOSE i \in S : \A j \in S : i <= j

\* img.get('data-zoom') or img.get('data-src') or img.get('src')
ImgSource(img) ==
    IF ~Falsy(img.data_zoom) THEN img.data_zoom
    ELSE IF ~Falsy(img.data_src) THEN img.data_src
    ELSE img.src

RECURSIVE CandidateUrls(_, _, _)
\* the loop of lines 129-139 over imgs[i..]
CandidateUrls(page_url, imgs, i) ==
    IF i > Len(imgs) THEN <<>>
    ELSE LET src == ImgSource(imgs[i])
             rest == CandidateUrls(page_url, imgs, i + 1)
         IN  IF Falsy(src) THEN rest
             ELSE IF Blocklisted(UrlJoin(page_url, src)) THEN rest
             ELSE <<UrlJoin(page_url, src)>> \o rest

\* variant: without the preference of lines 141-143
PickCandidate_first(candidate_urls) ==
    IF candidate_urls # <<>> THEN candidate_urls[1] ELSE None

\* lines 141-146: the preferred candidate, None when there is no candidate
PickCandidate(candidate_urls) ==
    LET pref == {i \in DOMAIN candidate_urls :
                    \/ StrIn(<<"zoom">>, StrLower(candidate_urls[i]))
                    \/ StrIn(<<"large">>, StrLower(candidate_urls[i]))}
    IN  IF pref # {} THEN candidate_urls[FirstIndex(pref)]
        ELSE IF candidate_urls # <<>> THEN candidate_urls[1]
        ELSE None

\* lines 116-146 on a parsed page: [ret, step], ret = None when nothing returns
ScrapePage(page_url, page) ==
    LET g == FirstIndex({i \in DOMAIN page.imgs : page.imgs[i].gallery})
        cands == CandidateUrls(page_url, page.imgs, 1)
    IN  IF g # 0 /\ ~Falsy(page.imgs[g].data_zoom)
            THEN [ret |-> page.imgs[g].data_zoom, step |-> "zoom_attr"]
        ELSE IF page.metas # <<>> /\ ~Falsy(page.metas[1])
            THEN [ret |-> page.metas[1], step |-> "og"]
        ELSE [ret |-> PickCandidate(cands), step |-> "img"]

\* lines 108-146, the body of the try.  fetch is what requests.get,
\* raise_for_status and BeautifulSoup do: ("ok", page), or a RequestException
\* ("transport", "timeout", "status"), or another exception while the page is
\* parsed ("parse_error").  ret = None: the body fell through to line 154.
extract_try(page_url, fetch) ==
    IF fetch.kind = "ok"
        THEN [ret |-> ScrapePage(page_url, fetch.page).ret, raised |-> FALSE,
              step |-> ScrapePage(page_url, fetch.page).step]
    ELSE [ret |-> None, raised |-> TRUE, step |-> "none"]

\* variant: without the guard of lines 105-106
extract_image_url_no_guard(page_url, fetch, hit) ==
    LET t == extract_try(page_url, fetch)
    IN  IF ~t.raised /\ t.ret # None
            THEN [ret |-> t.ret, raised |-> FALSE,
                  calls |-> <<"page_fetch">>, step |-> t.step]
        ELSE [ret |-> search_google_images(hit).ret,
              raised |-> search_google_images(hit).raised,
              calls |-> <<"page_fetch">> \o search_google_images(hit).calls,
              step |-> "search"]

\* variant: without the handlers of lines 148-152
extract_image_url_uncaught(page_url, fetch, hit) ==
    IF Falsy(page_url)
        THEN [ret |-> search_google_images(hit).ret,
              raised |-> search_google_images(hit).raised,
              calls |-> search_google_images(hit).calls, step |-> "search"]
    ELSE LET t == extract_try(page_url, fetch)
         IN  IF t.raised
                 THEN [ret |-> None, raised |-> TRUE,
                       calls |-> <<"page_fetch">>, step |-> "none"]
             ELSE IF t.ret # None
                 THEN [ret |-> t.ret, raised |-> FALSE,
                       calls |-> <<"page_fetch">>, step |-> t.step]
             ELSE [ret |-> search_google_images(hit).ret,
                   raised |-> search_google_images(hit).raised,
                   calls |-> <<"page_fetch">> \o search_google_images(hit).calls,
                   step |-> "search"]

\* hit is what the image search does if it is called
extract_image_url(page_url, fetch, hit) ==
    IF Falsy(page_url)
        THEN [ret |-> search_google_images(hit).ret,
              raised |-> search_google_images(hit).raised,
              calls |-> search_google_images(hit).calls, step |-> "search"]
    ELSE LET t == extract_try(page_url, fetch)
         IN  IF ~t.raised /\ t.ret # None
                 THEN [ret |-> t.ret, raised |-> FALSE,
                       calls |-> <<"page_fetch">>, step |-> t.step]
             ELSE [ret |-> search_google_images(hit).ret,
                   raised |-> search_google_images(hit).raised,
                   calls |-> <<"page_fetch">> \o search_google_images(hit).calls,
                   step |-> "search"]

(***************************************************************************)
(* download_image.  disk is [dir, files]: whether the image folder exists, *)
(* and the files in it as a set of [path, state], state "full" or          *)
(* "partial".  o is what the download does: "ok", or a failure of          *)
(* requests.get ("request_error"), raise_for_status ("status_error"),      *)
(* os.makedirs ("mkdir_error"), open ("open_error") or of the streaming    *)
(* loop after the file was opened ("write_error").  requests.get raises    *)
(* on a URL that has no http scheme.                                       *)
(***************************************************************************)
\* variant: without the "erro" test
IsSentinel_not_found_only(image_url) ==
    \/ Falsy(image_url)
    \/ StrIn(<<"não encontrada">>, StrLower(image_url))

IsSentinel(image_url) ==
    \/ Falsy(image_url)
    \/ StrIn(<<"não encontrada">>, StrLower(image_url))
    \/ StrIn(<<"erro">>, StrLower(image_url))

Filepath(image_url, sku) ==
    LET ext == IF SplitExt(UrlPath(image_url)) # <<>> THEN SplitExt(UrlPath(image_url))
               ELSE <<".jpg">>
    IN  PathJoin(IMAGE_FOLDER, sku \o ext)

PutFile(files, path, state) ==
    {f \in files : f.path # path} \cup {[path |-> path, state |-> state]}

\* lines 163-176, the body of the try
download_try(image_url, sku, o, disk) ==
    IF ~IsHttp(image_url) \/ o \in {"request_error", "status_error"}
        THEN [ret |-> None, raised |-> TRUE, calls |-> <<"download">>, disk |-> disk]
    ELSE IF o = "mkdir_error"
        THEN [ret |-> None, raised |-> TRUE, calls |-> <<"download">>, disk |-> disk]
    ELSE IF o = "open_error"
        THEN [ret |-> None, raised |-> TRUE, calls |-> <<"download">>,
              disk |-> [disk EXCEPT !.dir = TRUE]]
    ELSE IF o = "write_error"
        THEN [ret |-> None, raised |-> TRUE, calls |-> <<"download">>,
              disk |-> [dir |-> TRUE,
                        files |-> PutFile(disk.files, Filepath(image_url, sku), "partial")]]
    ELSE [ret |-> Filepath(image_url, sku), raised |-> FALSE, calls |-> <<"download">>,
          disk |-> [dir |-> TRUE,
                    files |-> PutFile(disk.files, Filepath(image_url, sku), "full")]]

\* variant: without the handler of lines 177-178
download_image_uncaught(image_url, sku, o, disk) ==
    IF IsSentinel(image_url)
        THEN [ret |-> image_url, raised |-> FALSE, calls |-> <<>>, disk |-> disk]
    ELSE download_try(image_url, sku, o, disk)

\* variant: the handler of lines 177-178 hands back the URL it was given
download_image_returns_url(image_url, sku, o, disk) ==
    IF IsSentinel(image_url)
        THEN [ret |-> image_url, raised |-> FALSE, calls |-> <<>>, disk |-> disk]
    ELSE LET r == download_try(image_url, sku, o, disk)
         IN  IF r.raised THEN [r EXCEPT !.ret = image_url, !.raised = FALSE] ELSE r

\* lines 160-161 the pass-through, lines 177-178 the handler
download_image(image_url, sku, o, disk) ==
    IF IsSentinel(image_url)
        THEN [ret |-> image_url, raised |-> FALSE, calls |-> <<>>, disk |-> disk]
    ELSE LET r == download_try(image_url, sku, o, disk)
         IN  IF r.raised THEN [r EXCEPT !.ret = DOWNLOAD_ERROR, !.raised = FALSE] ELSE r

(***************************************************************************)
(* generate_ai_descriptions.  o is what the model call does: it returns    *)
(* a response whose text is o.text ("text"), or raises a quota error       *)
(* ("quota") or another exception ("error").                               *)
(***************************************************************************)
short_desc_marker == <<"[DESCRIÇÃO CURTA]">>
long_desc_marker == <<"[DESCRIÇÃO LONGA HTML]">>
EXTRACT_ERROR_SHORT == <<"Erro ao extrair descrição curta">>
EXTRACT_ERROR_LONG == <<"<p>Erro ao extrair descrição longa.</p>">>
GEN_ERROR_SHORT == <<"Erro ao gerar descrição">>
GEN_ERROR_LONG == <<"<p>Erro ao gerar descrição.</p>">>

NoDescriptions == [short |-> None, long_html |-> None]

\* variant: line 202 with `or` in place of `and`
ParseDescriptions_either_marker(response_text) ==
    LET text == StrStrip(response_text)
        start_short == StrFind(text, short_desc_marker) + Len(short_desc_marker)
        end_short == IF StrFind(text, long_desc_marker) < 0 THEN Len(text) - 1
                     ELSE StrFind(text, long_desc_marker)
        start_long == StrFind(text, long_desc_marker) + Len(long_desc_marker)
    IN  IF StrIn(short_desc_marker, text) \/ StrIn(long_desc_marker, text)
            THEN [short |-> StrStrip(StrSlice(text, start_short, end_short)),
                  long_html |-> StrStrip(StrSlice(text, start_long, Len(text)))]
        ELSE [short |-> EXTRACT_ERROR_SHORT, long_html |-> EXTRACT_ERROR_LONG]

\* lines 194-210
ParseDescriptions(response_text) ==
    LET text == StrStrip(response_text)
        start_short == StrFind(text, short_desc_marker) + Len(short_desc_marker)
        end_short == StrFind(text, long_desc_marker)
        start_long == StrFind(text, long_desc_marker) + Len(long_desc_marker)
    IN  IF StrIn(short_desc_marker, text) /\ StrIn(long_desc_marker, text)
            THEN [short |-> StrStrip(StrSlice(text, start_short, end_short)),
                  long_html |-> StrStrip(StrSlice(text, start_long, Len(text)))]
        ELSE [short |-> EXTRACT_ERROR_SHORT, long_html |-> EXTRACT_ERROR_LONG]

\* lines 183-210, the body of the try
generate_try(o) ==
    IF o.kind = "text"
        THEN [ret |-> ParseDescriptions(o.text), raised |-> FALSE, calls |-> <<"generate">>]
    ELSE [ret |-> NoDescriptions, raised |-> TRUE, calls |-> <<"generate">>]

\* variant: without the handler of lines 211-216
generate_ai_descriptions_uncaught(o) == generate_try(o)

\* lines 211-216: the handler returns the generation-error pair
generate_ai_descriptions(o) ==
    LET r == generate_try(o)
    IN  IF r.raised
            THEN [r EXCEPT !.ret = [short |-> GEN_ERROR_SHORT, long_html |-> GEN_ERROR_LONG],
                           !.raised = FALSE]
        ELSE r

(***************************************************************************)
(* The input table, and what the external services may answer.            *)
(***************************************************************************)
COL_SKU == "CODIGO"
COL_NAME == "DESCRICAO_CODIGO"
COL_QTY == "QUANT."
COL_PRICE == "VENDA"

SeqsUpTo(S, n) == UNION {[1..k -> S] : k \in 0..n}

Restrict(f, S) == [x \in (DOMAIN f) \cap S |-> f[x]]

AllCols == {COL_SKU, COL_NAME, COL_QTY, COL_PRICE}

DigitTok(i) ==
    CASE i = 0 -> "0" [] i = 1 -> "1" [] i = 2 -> "2" [] i = 3 -> "3" [] i = 4 -> "4"
      [] i = 5 -> "5" [] i = 6 -> "6" [] i = 7 -> "7" [] i = 8 -> "8" [] OTHER -> "9"

\* row i of the catalog the tables are cut from: SKUs P1, P2, ...
CatalogRow(i) ==
    [c \in AllCols |-> CASE c = COL_SKU -> <<"P", DigitTok(i)>>
                          [] c = COL_NAME -> IF i % 2 = 1 THEN <<"Widget">> ELSE <<"Gadget">>
                          [] c = COL_QTY -> IF i % 2 = 1 THEN <<"5">> ELSE <<"0">>
                          [] OTHER -> <<"10.0">>]

\* a table of n rows with all four columns, or without the SKU and quantity columns
Tables ==
    {[i \in 1..n |-> Restrict(CatalogRow(i), cols)] :
        n \in 0..MaxRows, cols \in {AllCols, {COL_NAME, COL_PRICE}}}

\* row.get(col, default)
RowGet(row, col, default) == IF col \in DOMAIN row THEN row[col] ELSE default

PAGE_URL == <<"http://shop.test", "/", "p1">>
U_w_jpg == <<"http://shop.test", "/", "w", ".jpg">>
U_w == <<"http://shop.test", "/", "w">>
U_query == <<"http://shop.test", "/", "w", ".png", "?", "v", ".jpg">>
U_zoom == <<"http://shop.test", "/", "Zoom", "/", "w", ".webp">>
U_LARGE == <<"http://shop.test", "/", "w", "LARGE", ".JPG">>
U_logo == <<"http://shop.test", "/", "logo", ".png">>
U_LOGO == <<"http://shop.test", "/", "LOGO", ".png">>
U_spinner == <<"http://shop.test", "/", "spinner", ".gif">>
U_ferro == <<"http://shop.test", "/", "f", "erro", ".jpg">>
U_nao == <<"http://shop.test", "/", "Imagem", " ", "Não Encontrada", ".png">>
U_hit == <<"http://img.test", "/", "hit", ".png">>
U_hit_icon == <<"http://img.test", "/", "icon", ".png">>
R_w_jpg == <<"/", "w", ".jpg">>
R_w == <<"w">>
D_base64 == <<"data:image/png;", "base64", ",", "AAAA">>

NotCalled == [kind |-> "not_called"]

SearchOutcomes ==
    {[kind |-> "items", link |-> PAGE_URL]}
    \cup {[kind |-> k, link |-> None] : k \in {"empty", "http429", "httperr", "exception"}}

Img(gallery, data_zoom, data_src, src) ==
    [gallery |-> gallery, data_zoom |-> data_zoom, data_src |-> data_src, src |-> src]

FetchFailures == {[kind |-> k] : k \in {"transport", "timeout", "status", "parse_error"}}

FetchOk(pages) == {[kind |-> "ok", page |-> p] : p \in pages}

HitsOf(urls) ==
    {[kind |-> "items", link |-> u] : u \in urls}
    \cup {[kind |-> k, link |-> None] : k \in {"empty", "exception"}}

DownloadOutcomes == {"ok", "request_error", "status_error", "mkdir_error", "open_error", "write_error"}

T_ok == <<short_desc_marker[1], "a", long_desc_marker[1], "b">>
T_no_long == <<short_desc_marker[1], "a">>

T_reversed == <<long_desc_marker[1], "b", short_desc_marker[1], "a">>

GenOutcomesOf(texts) ==
    {[kind |-> "text", text |-> t] : t \in texts} \cup {[kind |-> "quota"], [kind |-> "error"]}

Page(imgs, metas) == [imgs |-> imgs, metas |-> metas]

\* batch runs (Spec): one page, one image-search hit, one well-formed response,
\* and two or three kinds of failure of each call
BatchFetches == {[kind |-> "timeout"], [kind |-> "status"]} \cup FetchOk({Page(<<>>, <<U_w_jpg>>)})

BatchDownloads == {"ok", "status_error", "write_error"}

BatchHits == HitsOf({U_hit})

BatchGens == GenOutcomesOf({T_ok})

\* one-row runs (SpecRow): pages and hits that bring every kind of URL
RowPages ==
    {Page(<<>>, <<U_w_jpg>>),
     Page(<<>>, <<U_query>>),
     Page(<<>>, <<U_ferro>>),
     Page(<<>>, <<U_nao>>),
     Page(<<>>, <<U_logo>>),
     Page(<<>>, <<R_w_jpg>>),
     Page(<<Img(TRUE, U_zoom, None, U_w_jpg)>>, <<U_w_jpg>>),
     Page(<<Img(FALSE, None, None, U_logo), Img(FALSE, None, None, R_w)>>, <<>>),
     Page(<<Img(FALSE, None, U_LARGE, U_spinner)>>, <<>>),
     Page(<<Img(FALSE, None, None, D_base64)>>, <<>>),
     Page(<<>>, <<>>)}

RowFetches == FetchFailures \cup FetchOk(RowPages)

RowHits == HitsOf({U_hit, U_hit_icon, U_nao})

RowGens == GenOutcomesOf({T_ok, T_no_long, T_reversed})

\* runs of extract_image_url alone (SpecResolve): every page made of these
\* elements, up to MaxImgs <img> and MaxMetas og:image <meta> elements
AllImgs ==
    {Img(FALSE, None, None, U_w_jpg),
     Img(FALSE, None, None, U_LOGO),
     Img(FALSE, None, U_LARGE, U_spinner),
     Img(FALSE, None, None, R_w),
     Img(TRUE, U_zoom, None, None),
     Img(TRUE, None, None, None),
     Img(FALSE, U_zoom, U_w, U_logo)}

AllMetas == {None, U_query, U_logo}

AllPages == {Page(imgs, metas) : imgs \in SeqsUpTo(AllImgs, MaxImgs),
                                 metas \in SeqsUpTo(AllMetas, MaxMetas)}

AllFetches == FetchFailures \cup FetchOk(AllPages)

AllHits == HitsOf({U_hit, U_hit_icon})

\* runs of download_image alone (SpecFetch)
AllImageUrls ==
    {None, <<>>, NOT_FOUND, DOWNLOAD_ERROR, <<"IMAGEM", " ", "NÃO ENCONTRADA">>,
     U_w_jpg, U_w, U_query, U_zoom, U_LARGE, U_logo, U_ferro, U_nao, U_hit,
     R_w_jpg, D_base64}

\* runs of generate_ai_descriptions alone (SpecGen): every response text of
\* up to MaxTextLen tokens
TextToks == {short_desc_marker[1], long_desc_marker[1], "a", " "}

AllGens == GenOutcomesOf(SeqsUpTo(TextToks, MaxTextLen))

(***************************************************************************)
(* The state of a run of main().                                           *)
(***************************************************************************)
VARIABLES
    pc,                 \* where main() is
    config,             \* how the configuration of lines 222-251 went
    df,                 \* the input table
    idx,                \* the number of rows the loop has taken
    row,                \* sku, name, quantity, price of the current row
    product_page_url,
    image_url,
    local_image_path,
    descriptions,
    processed_products,
    calls,              \* the external calls made for the current row, in order
    last,               \* what the services answered for the current row
    disk,               \* the image folder
    output              \* the output file: how often written, and its rows

vars == <<pc, config, df, idx, row, product_page_url, image_url, local_image_path,
          descriptions, processed_products, calls, last, disk, output>>

NoRow == [sku |-> None, name |-> None, quantity |-> None, price |-> None]

NoLast == [search |-> NotCalled, fetch |-> NotCalled, hit |-> NotCalled,
           dl |-> "not_called", gen |-> NotCalled, step |-> "none"]

EmptyDisk == [dir |-> FALSE, files |-> {}]

Init ==
    /\ pc = "start"
    /\ config = "not_run"
    /\ df = <<>>
    /\ idx = 0
    /\ row = NoRow
    /\ product_page_url = None
    /\ image_url = None
    /\ local_image_path = None
    /\ descriptions = NoDescriptions
    /\ processed_products = <<>>
    /\ calls = <<>>
    /\ last = NoLast
    /\ disk = EmptyDisk
    /\ output = [writes |-> 0, rows |-> <<>>]

\* variant: line 246 missing, an unsupported file format does not end main
Start_unsupported_goes_on ==
    /\ pc = "start"
    /\ \E c \in {"placeholder_keys", "configure_error", "file_missing",
                 "unsupported_format", "read_error", "build_error", "ok"} :
          /\ config' = c
          /\ IF c \in {"ok", "unsupported_format"}
                 THEN \E t \in Tables : df' = t /\ pc' = "loop"
             ELSE /\ df' = df
                  /\ pc' = IF c = "build_error" THEN "crashed" ELSE "aborted"
    /\ UNCHANGED <<idx, row, product_page_url, image_url, local_image_path,
                   descriptions, processed_products, calls, last, disk, output>>

\* lines 222-251.  c is how the configuration goes: the API keys are still the
\* placeholders, genai.configure raises, the input file is missing, has an
\* unsupported suffix, cannot be read, build() raises, or all is well ("ok").
Start ==
    /\ pc = "start"
    /\ \E c \in {"placeholder_keys", "configure_error", "file_missing",
                 "unsupported_format", "read_error", "build_error", "ok"} :
          /\ config' = c
          /\ IF c = "ok"
                 THEN \E t \in Tables : df' = t /\ pc' = "loop"
             ELSE /\ df' = df
                  /\ pc' = IF c = "build_error" THEN "crashed" ELSE "aborted"
    /\ UNCHANGED <<idx, row, product_page_url, image_url, local_image_path,
                   descriptions, processed_products, calls, last, disk, output>>

\* lines 254-261: the loop takes the next row, or ends
LoopNext ==
    /\ pc = "loop"
    /\ IF idx < Len(df)
           THEN /\ row' = [sku |-> RowGet(df[idx + 1], COL_SKU, <<"SKU_GEN_", DigitTok(idx)>>),
                           name |-> RowGet(df[idx + 1], COL_NAME, <<"PRODUTO_SEM_NOME">>),
                           quantity |-> RowGet(df[idx + 1], COL_QTY, <<"0">>),
                           price |-> RowGet(df[idx + 1], COL_PRICE, <<"0.0">>)]
                /\ idx' = idx + 1
                /\ pc' = "search"
           ELSE /\ pc' = "export"
                /\ UNCHANGED <<row, idx>>
    /\ calls' = <<>>
    /\ last' = NoLast
    /\ product_page_url' = None
    /\ image_url' = None
    /\ local_image_path' = None
    /\ descriptions' = NoDescriptions
    /\ UNCHANGED <<config, df, processed_products, disk, output>>

\* line 263
SearchPage ==
    /\ pc = "search"
    /\ \E o \in SearchOutcomes :
          LET r == search_product_page_url(o)
          IN  /\ pc' = IF r.raised THEN "crashed" ELSE "resolve"
              /\ product_page_url' = r.ret
              /\ calls' = calls \o r.calls
              /\ last' = [last EXCEPT !.search = o]
    /\ UNCHANGED <<config, df, idx, row, image_url, local_image_path, descriptions,
                   processed_products, disk, output>>

\* lines 265-269
ResolveWith(fetches, hits) ==
    /\ pc = "resolve"
    /\ \E fetch \in fetches, hit \in hits :
          LET r == extract_image_url(product_page_url, fetch, hit)
              called(c) == \E i \in DOMAIN r.calls : r.calls[i] = c
          IN  /\ pc' = IF r.raised THEN "crashed" ELSE "download"
              /\ image_url' = IF Falsy(r.ret) THEN NOT_FOUND ELSE r.ret
              /\ calls' = calls \o r.calls
              /\ last' = [last EXCEPT !.fetch = IF called("page_fetch") THEN fetch ELSE NotCalled,
                                      !.hit = IF called("image_search") THEN hit ELSE NotCalled,
                                      !.step = r.step]
    /\ UNCHANGED <<config, df, idx, row, product_page_url, local_image_path, descriptions,
                   processed_products, disk, output>>

Resolve == ResolveWith(BatchFetches, BatchHits)

ResolveRow == ResolveWith(RowFetches, RowHits)

ResolveAny == ResolveWith(AllFetches, AllHits)

\* line 271
DownloadWith(outcomes) ==
    /\ pc = "download"
    /\ \E o \in outcomes :
          LET r == download_image(image_url, row.sku, o, disk)
          IN  /\ pc' = IF r.raised THEN "crashed" ELSE "generate"
              /\ local_image_path' = r.ret
              /\ disk' = r.disk
              /\ calls' = calls \o r.calls
              /\ last' = [last EXCEPT !.dl =
                             IF r.calls = <<>> THEN "not_called"
                             ELSE IF ~IsHttp(image_url) THEN "request_error" ELSE o]
    /\ UNCHANGED <<config, df, idx, row, product_page_url, image_url, descriptions,
                   processed_products, output>>

Download == DownloadWith(BatchDownloads)

DownloadAny == DownloadWith(DownloadOutcomes)

\* variant: no text is generated for a product whose quantity is 0
GenerateWith_skips_out_of_stock(gens) ==
    /\ pc = "generate"
    /\ \E o \in gens :
          LET r == IF row.quantity = <<"0">>
                       THEN [ret |-> [short |-> <<>>, long_html |-> <<>>],
                             raised |-> FALSE, calls |-> <<>>]
                   ELSE generate_ai_descriptions(o)
          IN  /\ pc' = IF r.raised THEN "crashed" ELSE "append"
              /\ descriptions' = r.ret
              /\ calls' = calls \o r.calls
              /\ last' = [last EXCEPT !.gen = o]
    /\ UNCHANGED <<config, df, idx, row, product_page_url, image_url, local_image_path,
                   processed_products, disk, output>>

\* line 272
GenerateWith(gens) ==
    /\ pc = "generate"
    /\ \E o \in gens :
          LET r == generate_ai_descriptions(o)
          IN  /\ pc' = IF r.raised THEN "crashed" ELSE "append"
              /\ descriptions' = r.ret
              /\ calls' = calls \o r.calls
              /\ last' = [last EXCEPT !.gen = o]
    /\ UNCHANGED <<config, df, idx, row, product_page_url, image_url, local_image_path,
                   processed_products, disk, output>>

Generate == GenerateWith(BatchGens)

GenerateRow == GenerateWith(RowGens)

GenerateAny == GenerateWith(AllGens)

\* variant: line 282 without the placeholder substitution
Record_no_placeholder ==
    [Nome |-> row.name,
     DescricaoCurta |-> descriptions.short,
     DescricaoLonga |-> descriptions.long_html,
     Preco |-> row.price,
     SKU |-> row.sku,
     Peso |-> <<"0">>,
     Estoque |-> row.quantity,
     URLImagem |-> image_url,
     Situacao |-> <<"Ativo">>,
     CaminhoImagemLocal |-> local_image_path,
     URLOrigemPagina |-> IF Falsy(product_page_url) THEN ND ELSE product_page_url]

\* lines 274-286: the record of the current row
Record ==
    [Nome |-> row.name,
     DescricaoCurta |-> descriptions.short,
     DescricaoLonga |-> descriptions.long_html,
     Preco |-> row.price,
     SKU |-> row.sku,
     Peso |-> <<"0">>,
     Estoque |-> row.quantity,
     URLImagem |-> IF ~StrIn(<<"não encontrada">>, image_url) THEN image_url
                   ELSE PLACEHOLDER_URL,
     Situacao |-> <<"Ativo">>,
     CaminhoImagemLocal |-> local_image_path,
     URLOrigemPagina |-> IF Falsy(product_page_url) THEN ND ELSE product_page_url]

\* variant: the record is inserted at the head of the list
AppendRecord_Prepend ==
    /\ pc = "append"
    /\ processed_products' = <<Record>> \o processed_products
    /\ pc' = "loop"
    /\ UNCHANGED <<config, df, idx, row, product_page_url, image_url, local_image_path,
                   descriptions, calls, last, disk, output>>

\* lines 274-288
AppendRecord ==
    /\ pc = "append"
    /\ processed_products' = Append(processed_products, Record)
    /\ pc' = "loop"
    /\ UNCHANGED <<config, df, idx, row, product_page_url, image_url, local_image_path,
                   descriptions, calls, last, disk, output>>

\* lines 290-297
Export ==
    /\ pc = "export"
    /\ output' = IF processed_products # <<>>
                     THEN [writes |-> output.writes + 1, rows |-> processed_products]
                 ELSE output
    /\ pc' = "done"
    /\ UNCHANGED <<config, df, idx, row, product_page_url, image_url, local_image_path,
                   descriptions, processed_products, calls, last, disk>>

\* the operator's interrupt (KeyboardInterrupt) while the loop runs: no handler
\* catches it, main() ends there and its locals are gone
Interrupt ==
    /\ pc \in {"loop", "search", "resolve", "download", "generate", "append"}
    /\ pc' = "interrupted"
    /\ row' = NoRow
    /\ product_page_url' = None
    /\ image_url' = None
    /\ local_image_path' = None
    /\ descriptions' = NoDescriptions
    /\ calls' = <<>>
    /\ last' = NoLast
    /\ UNCHANGED <<config, df, idx, processed_products, disk, output>>

Next ==
    \/ Start
    \/ LoopNext
    \/ SearchPage
    \/ Resolve
    \/ Download
    \/ Generate
    \/ AppendRecord
    \/ Export
    \/ Interrupt

Spec == Init /\ [][Next]_vars

(***************************************************************************)
(* One-row runs: the pipeline for a single product, over RowFetches,       *)
(* RowHits and RowGens.                                                    *)
(***************************************************************************)
InitRow ==
    /\ pc = "loop"
    /\ config = "ok"
    /\ df \in {t \in Tables : Len(t) = 1}
    /\ idx = 0
    /\ row = NoRow
    /\ product_page_url = None
    /\ image_url = None
    /\ local_image_path = None
    /\ descriptions = NoDescriptions
    /\ processed_products = <<>>
    /\ calls = <<>>
    /\ last = NoLast
    /\ disk \in {EmptyDisk,
                 [dir |-> TRUE, files |-> {[path |-> Filepath(U_w_jpg, <<"P", "1">>), state |-> "full"]}]}
    /\ output = [writes |-> 0, rows |-> <<>>]

NextRow ==
    \/ LoopNext
    \/ SearchPage
    \/ ResolveRow
    \/ DownloadAny
    \/ GenerateRow
    \/ AppendRecord
    \/ Export

SpecRow == InitRow /\ [][NextRow]_vars

(***************************************************************************)
(* extract_image_url alone (lines 265-269 of main calling it), on every    *)
(* page of AllPages.                                                       *)
(***************************************************************************)
InitResolve ==
    /\ pc = "resolve"
    /\ config = "ok"
    /\ df = <<CatalogRow(1)>>
    /\ idx = 1
    /\ row = [sku |-> <<"P", "1">>, name |-> <<"Widget">>, quantity |-> <<"5">>, price |-> <<"10.0">>]
    /\ product_page_url \in {None, <<>>, PAGE_URL}
    /\ image_url = None
    /\ local_image_path = None
    /\ descriptions = NoDescriptions
    /\ processed_products = <<>>
    /\ calls = <<>>
    /\ last = NoLast
    /\ disk = EmptyDisk
    /\ output = [writes |-> 0, rows |-> <<>>]

NextResolve == ResolveAny

SpecResolve == InitResolve /\ [][NextResolve]_vars

(***************************************************************************)
(* download_image alone, on every value of AllImageUrls.                   *)
(***************************************************************************)
InitFetch ==
    /\ pc = "download"
    /\ config = "ok"
    /\ df = <<CatalogRow(1)>>
    /\ idx = 1
    /\ row \in {[sku |-> sku, name |-> <<"Widget">>, quantity |-> <<"5">>, price |-> <<"10.0">>] :
                   sku \in {<<"P", "1">>, <<"SKU_GEN_", "0">>}}
    /\ product_page_url = None
    /\ image_url \in AllImageUrls
    /\ local_image_path = None
    /\ descriptions = NoDescriptions
    /\ processed_products = <<>>
    /\ calls = <<>>
    /\ last = NoLast
    /\ disk \in {EmptyDisk,
                 [dir |-> TRUE, files |-> {}],
                 [dir |-> TRUE, files |-> {[path |-> Filepath(U_w_jpg, <<"P", "1">>), state |-> "full"]}]}
    /\ output = [writes |-> 0, rows |-> <<>>]

NextFetch == DownloadAny

SpecFetch == InitFetch /\ [][NextFetch]_vars

(***************************************************************************)
(* generate_ai_descriptions alone, on every response of AllGens.           *)
(***************************************************************************)
InitGen ==
    /\ pc = "generate"
    /\ config = "ok"
    /\ df = <<CatalogRow(1)>>
    /\ idx = 1
    /\ row = [sku |-> <<"P", "1">>, name |-> <<"Widget">>, quantity |-> <<"5">>, price |-> <<"10.0">>]
    /\ product_page_url = None
    /\ image_url = NOT_FOUND
    /\ local_image_path = NOT_FOUND
    /\ descriptions = NoDescriptions
    /\ processed_products = <<>>
    /\ calls = <<>>
    /\ last = NoLast
    /\ disk = EmptyDisk
    /\ output = [writes |-> 0, rows |-> <<>>]

NextGen == GenerateAny

SpecGen == InitGen /\ [][NextGen]_vars

(***************************************************************************)
(* Properties.                                                             *)
(***************************************************************************)
InIteration == pc \in {"search", "resolve", "download", "generate", "append"}

\* the record of the row the loop took last, once it is appended
Appended == pc = "loop" /\ idx >= 1 /\ Len(processed_products) = idx

LastRecord == processed_products[idx]

\* the SKU and name the record of input row i must carry
ExpectedSku(i) ==
    IF COL_SKU \in DOMAIN df[i] THEN df[i][COL_SKU] ELSE <<"SKU_GEN_", DigitTok(i - 1)>>

ExpectedName(i) ==
    IF COL_NAME \in DOMAIN df[i] THEN df[i][COL_NAME] ELSE <<"PRODUTO_SEM_NOME">>

Count(seq, x) == Cardinality({i \in DOMAIN seq : seq[i] = x})

\* C1: whatever the page search, page fetch, image search, image download and
\* text generation do (exception, empty result, HTTP error), an iteration of
\* the loop of main never ends in an escaped exception, can always take its
\* next step until the record is appended, and appends exactly one record:
\* while row idx is processed there are idx - 1 records, afterwards idx, and
\* at the end of the loop as many records as input rows.
C1_OneRecordPerRow ==
    /\ pc = "crashed" => idx = 0
    /\ InIteration =>
          /\ Len(processed_products) = idx - 1
          /\ ENABLED (SearchPage \/ Resolve \/ Download \/ Generate \/ AppendRecord)
    /\ pc \in {"loop", "export", "done"} => Len(processed_products) = idx
    /\ pc \in {"export", "done"} => Len(processed_products) = Len(df)

\* a second row got its record although every service failed for it
C1_Witness ==
    /\ Appended
    /\ idx = 2
    /\ last.search.kind = "exception"
    /\ last.hit.kind = "exception"
    /\ last.gen.kind = "error"

\* C2: the collected results are at every point the records of an input-order
\* prefix of the rows; the output file is written only when the loop has
\* ended, at most once, and after a completed run over N >= 1 rows it was
\* written exactly once and holds the N records in input order; a record is
\* never changed after it was appended.
C2_PrefixInv ==
    /\ Len(processed_products) <= Len(df)
    /\ \A i \in DOMAIN processed_products :
          /\ processed_products[i].SKU = ExpectedSku(i)
          /\ processed_products[i].Nome = ExpectedName(i)
    /\ pc # "done" => output.writes = 0
    /\ (pc = "done" /\ Len(df) >= 1) =>
          /\ output.writes = 1
          /\ Len(output.rows) = Len(df)
          /\ output.rows = processed_products
          /\ \A i \in DOMAIN df : output.rows[i].SKU = ExpectedSku(i)

C2_Frozen ==
    /\ Len(processed_products') >= Len(processed_products)
    /\ \A i \in DOMAIN processed_products : processed_products'[i] = processed_products[i]

C2_OrderedExport == [](C2_PrefixInv) /\ [][C2_Frozen]_vars

C2_Witness == pc = "done" /\ Len(df) = 2 /\ output.writes = 1 /\ Len(output.rows) = 2

\* C3: when the page search returned no page (None), extract_image_url calls
\* the image search exactly once and fetches and parses no page.
C3_NoPageFallbackOnce ==
    (pc = "download" /\ product_page_url = None) =>
        /\ Count(calls, "image_search") = 1
        /\ Count(calls, "page_fetch") = 0
        /\ last.fetch = NotCalled
        /\ last.step = "search"

C3_Witness ==
    /\ pc = "download"
    /\ product_page_url = None
    /\ last.hit.kind = "items"
    /\ image_url = U_hit

\* u contains one of the tokens logo, icon, avatar, spinner, .svg, .gif,
\* base64, in any letter case
HasBlockToken(u) ==
    \E i \in DOMAIN u :
        u[i] \in {"logo", "LOGO", "icon", "avatar", "spinner", ".svg", ".SVG", ".gif", "base64"}

\* C4 as stated: whichever step produced it (zoom attribute, og:image,
\* generic <img>, image search), the URL extract_image_url returns contains
\* no blocklisted token.
C4_NeverBlocklisted ==
    (pc = "download" /\ image_url # NOT_FOUND) => ~HasBlockToken(image_url)

\* C4 amended: a URL that extract_image_url returns from the generic <img>
\* candidates (lines 126-146) contains no blocklisted token, in any letter
\* case; the zoom attribute, the og:image value and the image-search result
\* are returned unfiltered.
C4_GenericCandidateNotBlocklisted ==
    (pc = "download" /\ last.step = "img") => ~HasBlockToken(image_url)

\* a generic candidate was returned from a page whose first <img> is a logo
C4_Witness ==
    /\ pc = "download"
    /\ last.step = "img"
    /\ last.fetch.kind = "ok"
    /\ Len(last.fetch.page.imgs) = 2
    /\ last.fetch.page.imgs[1].src = U_LOGO
    /\ image_url = U_w_jpg

\* the page has an og:image <meta> with a non-empty content value
HasOgContent(page) == \E i \in DOMAIN page.metas : ~Falsy(page.metas[i])

\* the page has a gallery <img> that carries a data-zoom value
HasGalleryZoom(page) ==
    \E i \in DOMAIN page.imgs : page.imgs[i].gallery /\ ~Falsy(page.imgs[i].data_zoom)

\* C5: when the fetched page has an og:image meta tag with a non-empty content
\* value and no gallery image element with a data-zoom value,
\* extract_image_url returns an og:image content value of the page, whatever
\* <img> elements the page has, and calls no image search.
C5_OgImagePreferred ==
    (/\ pc = "download"
     /\ last.fetch.kind = "ok"
     /\ HasOgContent(last.fetch.page)
     /\ ~HasGalleryZoom(last.fetch.page)) =>
        /\ \E i \in DOMAIN last.fetch.page.metas :
              /\ ~Falsy(last.fetch.page.metas[i])
              /\ image_url = last.fetch.page.metas[i]
        /\ Count(calls, "image_search") = 0

\* the values download_image passes through: absent, empty, or a failure marker
SentinelInputs ==
    {None, <<>>, NOT_FOUND, DOWNLOAD_ERROR, <<"IMAGEM", " ", "NÃO ENCONTRADA">>}

\* C6: download_image called with an absent URL or a failure marker returns
\* that very value, makes no request and leaves the image folder and its
\* files as they were.
C6_Step ==
    (pc = "download" /\ image_url \in SentinelInputs) =>
        /\ local_image_path' = image_url
        /\ calls' = calls
        /\ disk' = disk

C6_SentinelPassThrough == [][C6_Step]_vars

\* the download-error marker went through: returned as it came, with no request
C6_Witness ==
    /\ pc = "generate"
    /\ image_url = DOWNLOAD_ERROR
    /\ local_image_path = DOWNLOAD_ERROR
    /\ calls = <<>>
    /\ disk = EmptyDisk

HasMarker(text, marker) == \E i \in DOMAIN text : text[i] = marker[1]

ExtractErrorPair == [short |-> EXTRACT_ERROR_SHORT, long_html |-> EXTRACT_ERROR_LONG]

\* C7: when the response lacks one of the two section markers,
\* generate_ai_descriptions returns the extraction-error placeholder for short
\* and for long, never response text in one field and a placeholder in the other.
C7_MissingMarkerBothPlaceholders ==
    (/\ pc = "append"
     /\ last.gen.kind = "text"
     /\ ~(HasMarker(last.gen.text, short_desc_marker) /\ HasMarker(last.gen.text, long_desc_marker))) =>
        descriptions = ExtractErrorPair

\* short marker present, long marker absent
C7_Witness ==
    /\ pc = "append"
    /\ last.gen.kind = "text"
    /\ last.gen.text = <<short_desc_marker[1], "a", " ", "a">>
    /\ descriptions = ExtractErrorPair

\* C8: when the page search yields no page and the image search yields
\* nothing, the record has the placeholder image URL as image_url and the
\* "not found" marker as local_image_path, and no download request was made;
\* and no record has an empty image_url.
C8_NotFoundPlaceholder ==
    /\ (/\ Appended
        /\ last.search.kind # "items"
        /\ last.hit.kind \in {"empty", "exception"}) =>
           /\ LastRecord.URLImagem = PLACEHOLDER_URL
           /\ LastRecord.CaminhoImagemLocal = NOT_FOUND
           /\ Count(calls, "download") = 0
           /\ last.dl = "not_called"
    /\ \A i \in DOMAIN processed_products :
           /\ processed_products[i].URLImagem # None
           /\ processed_products[i].URLImagem # <<>>

C8_Witness ==
    /\ Appended
    /\ last.search.kind = "http429"
    /\ last.hit.kind = "empty"
    /\ LastRecord.URLImagem = PLACEHOLDER_URL

\* C9: when the generative call raises (quota error or another exception),
\* generate_ai_descriptions returns the generation-error pair, main does not
\* end there, the record of the product is appended with the generation-error
\* placeholder as short description, and the loop takes the next row.
C9_GenerationErrorContinues ==
    last.gen.kind \in {"quota", "error"} =>
        /\ pc \in {"append", "loop"}
        /\ pc = "append" =>
              /\ descriptions = [short |-> GEN_ERROR_SHORT, long_html |-> GEN_ERROR_LONG]
              /\ ENABLED AppendRecord
        /\ pc = "loop" =>
              /\ Appended
              /\ LastRecord.DescricaoCurta = GEN_ERROR_SHORT
              /\ LastRecord.DescricaoLonga = GEN_ERROR_LONG
              /\ ENABLED LoopNext

\* after a quota error for the first row the second row has its record too
C9_Witness ==
    /\ Len(processed_products) = 2
    /\ processed_products[1].DescricaoCurta = GEN_ERROR_SHORT
    /\ processed_products[2].DescricaoCurta = <<"a">>

\* the extension of the path component of the image URLs of the one-row runs
ExpectedExt(u) ==
    CASE u = U_w_jpg -> <<".jpg">>
      [] u = U_query -> <<".png">>
      [] u = U_zoom -> <<".webp">>
      [] u = U_LARGE -> <<".JPG">>
      [] u = U_logo -> <<".png">>
      [] u = <<"http://shop.test", "/", "w">> -> <<".jpg">>
      [] OTHER -> <<"?">>

\* C10: when the located page yields image URL U and the download of U
\* succeeds, the record has image_url = U and local_image_path =
\* imagens_produtos/<sku><ext>, ext the extension of U's path component, .jpg
\* when it has none; SKU P1 and U = http://shop.test/w.jpg give
\* imagens_produtos/P1.jpg.
C10_DownloadedPath ==
    (/\ Appended
     /\ last.step \in {"zoom_attr", "og", "img"}
     /\ last.dl = "ok") =>
        /\ LastRecord.URLImagem = image_url
        /\ LastRecord.CaminhoImagemLocal =
              <<"imagens_produtos", "/">> \o ExpectedSku(idx) \o ExpectedExt(image_url)
        /\ (ExpectedSku(idx) = <<"P", "1">> /\ image_url = U_w_jpg) =>
              LastRecord.CaminhoImagemLocal = <<"imagens_produtos", "/", "P", "1", ".jpg">>

\* scenario A
C10_Witness ==
    /\ Appended
    /\ last.step = "og"
    /\ last.dl = "ok"
    /\ product_page_url = PAGE_URL
    /\ LastRecord.SKU = <<"P", "1">>
    /\ LastRecord.URLImagem = U_w_jpg
    /\ LastRecord.CaminhoImagemLocal = <<"imagens_produtos", "/", "P", "1", ".jpg">>

\* the ways a download request that was made can fail
DownloadFailures ==
    {"request_error", "status_error", "mkdir_error", "open_error", "write_error"}

\* C11: download_image and main recognise the failure sentinels alike: for
\* the image URL value of a product, download_image passes it through as a
\* sentinel (no request) exactly when main replaces it by the placeholder
\* URL in the record; and a real image URL that the resolver returned is
\* treated as a sentinel by neither: it is requested and it is the image_url
\* of the record.
C11_SentinelsConsistent ==
    Appended =>
        /\ (last.dl = "not_called") <=> (LastRecord.URLImagem = PLACEHOLDER_URL)
        /\ IsHttp(image_url) =>
              /\ last.dl # "not_called"
              /\ LastRecord.URLImagem = image_url

\* C12: in every record, local_image_path is a path inside the image folder
\* or one of the two failure sentinels, and never a remote URL.
C12_LocalPathNeverRemote ==
    \A i \in DOMAIN processed_products :
        LET p == processed_products[i].CaminhoImagemLocal
        IN  /\ ~IsHttp(p)
            /\ \/ p \in {NOT_FOUND, DOWNLOAD_ERROR}
               \/ /\ Len(p) > 2
                  /\ <<p[1]>> = IMAGE_FOLDER
                  /\ p[2] = "/"

\* C13: when the resolver returned a real image URL and the download request
\* for it fails (request error or timeout, error status, error while making
\* the folder, opening or writing the file), the record has that very URL as
\* image_url, not the placeholder, and the download-error sentinel as
\* local_image_path.
C13_FailedDownloadKeepsUrl ==
    (/\ Appended
     /\ last.step # "none"
     /\ last.dl \in DownloadFailures) =>
        /\ image_url # NOT_FOUND
        /\ LastRecord.URLImagem = image_url
        /\ LastRecord.URLImagem # PLACEHOLDER_URL
        /\ LastRecord.CaminhoImagemLocal = DOWNLOAD_ERROR

\* the og:image URL was requested, the body could not be written
C13_Witness ==
    /\ Appended
    /\ last.step = "og"
    /\ last.dl = "write_error"
    /\ LastRecord.URLImagem = U_w_jpg
    /\ LastRecord.CaminhoImagemLocal = DOWNLOAD_ERROR

\* the configuration errors of lines 222-247
ConfigErrors ==
    {"placeholder_keys", "configure_error", "file_missing", "unsupported_format",
     "read_error"}

\* C14: on a configuration error (placeholder API keys, genai.configure
\* failing, input file missing, unreadable or of an unsupported format) main
\* has ended before any product is processed: no row was taken, no search,
\* fetch, download or generation call was made, no image file and no output
\* file was written, and nothing more happens.
C14_ConfigErrorAborts ==
    config \in ConfigErrors =>
        /\ pc = "aborted"
        /\ idx = 0
        /\ processed_products = <<>>
        /\ calls = <<>>
        /\ last = NoLast
        /\ disk = EmptyDisk
        /\ output = [writes |-> 0, rows |-> <<>>]
        /\ ~ENABLED Next

\* main has ended on an input file of an unsupported format
C14_Witness ==
    /\ config = "unsupported_format"
    /\ pc = "aborted"
    /\ output.writes = 0

\* C15: when an operator interrupt has stopped the processing after k >= 1
\* products were fully enriched, the k collected records are exported: the
\* output file has been written and holds those k records.
C15_InterruptExports ==
    (pc = "interrupted" /\ Len(processed_products) >= 1) =>
        /\ output.writes = 1
        /\ output.rows = processed_products

\* the least element of a non-empty set of numbers
Least(S) == CHOOSE i \in S : \A j \in S : i <= j

\* the source attribute of an <img>: data-zoom, else data-src, else src
SourceAttr(img) ==
    LET attrs == <<img.data_zoom, img.data_src, img.src>>
        present == {k \in 1..3 : attrs[k] \notin {None, <<>>}}
    IN  IF present = {} THEN None ELSE attrs[Least(present)]

\* the source made absolute against http://shop.test/p1
Absolute(src) ==
    IF src = R_w THEN <<"http://shop.test", "/", "w">>
    ELSE IF src = R_w_jpg THEN <<"http://shop.test", "/", "w", ".jpg">>
    ELSE src

HasZoomOrLarge(u) ==
    \E i \in DOMAIN u : u[i] \in {"zoom", "Zoom", "large", "LARGE"}

\* the <img> elements of the page whose source survives the blocklist
Survivors(page) ==
    {i \in DOMAIN page.imgs :
        /\ SourceAttr(page.imgs[i]) # None
        /\ ~HasBlockToken(Absolute(SourceAttr(page.imgs[i])))}

\* C16: when the fetched page has neither a gallery data-zoom value nor an
\* og:image value, extract_image_url takes the <img> elements in document
\* order, each with its source (data-zoom, else data-src, else src) made
\* absolute, drops the blocklisted ones, and returns the first candidate that
\* contains "zoom" or "large" in any letter case if there is one, else the
\* first candidate; the image search is called only when no candidate
\* survives.
C16_GenericCandidates ==
    (/\ pc = "download"
     /\ last.fetch.kind = "ok"
     /\ ~HasGalleryZoom(last.fetch.page)
     /\ ~HasOgContent(last.fetch.page)) =>
        LET page == last.fetch.page
            surv == Survivors(page)
            pref == {i \in surv : HasZoomOrLarge(Absolute(SourceAttr(page.imgs[i])))}
        IN  /\ pref # {} =>
                  image_url = Absolute(SourceAttr(page.imgs[Least(pref)]))
            /\ (pref = {} /\ surv # {}) =>
                  image_url = Absolute(SourceAttr(page.imgs[Least(surv)]))
            /\ surv # {} =>
                  /\ last.step = "img"
                  /\ Count(calls, "image_search") = 0
                  /\ last.hit = NotCalled

\* the second <img> is returned, for the "LARGE" in its data-src
C16_Witness ==
    /\ pc = "download"
    /\ last.fetch.kind = "ok"
    /\ last.fetch.page = Page(<<Img(FALSE, None, None, U_w_jpg),
                                Img(FALSE, None, U_LARGE, U_spinner)>>, <<>>)
    /\ image_url = U_LARGE
    /\ Count(calls, "image_search") = 0

\* C17: extract_image_url never raises; when the page was located and its
\* fetch fails (transport error, timeout, error status) or its parsing
\* fails, the page yields no candidate, the image search is called exactly
\* once, after the one page fetch, and what it returns is what
\* extract_image_url returns: the link of the hit, or nothing, which main
\* (lines 267-268) turns into the "not found" marker.
C17_FetchFailureFallsBack ==
    /\ pc # "crashed"
    /\ (/\ pc = "download"
        /\ last.fetch.kind \in {"transport", "timeout", "status", "parse_error"}) =>
           /\ Count(calls, "page_fetch") = 1
           /\ Count(calls, "image_search") = 1
           /\ last.step = "search"
           /\ last.hit.kind = "items" => image_url = last.hit.link
           /\ last.hit.kind \in {"empty", "exception"} => image_url = NOT_FOUND

\* the page fetch timed out, the image search had a hit
C17_Witness ==
    /\ pc = "download"
    /\ last.fetch.kind = "timeout"
    /\ last.hit.kind = "items"
    /\ image_url = U_hit

\* the place of a call in the order of lines 263-272
CallRank(c) ==
    CASE c = "page_search" -> 1
      [] c = "page_fetch" -> 2
      [] c = "image_search" -> 3
      [] c = "download" -> 4
      [] c = "generate" -> 5

\* C18: the external calls made for one product come in the order page
\* search, page fetch, image search, image download, text generation, each
\* at most once, whatever fails; when the product is done the page search
\* and the text generation have been made exactly once; and which of the
\* other calls were made follows from the answers of the earlier calls
\* alone, for every quantity and price of the row: the page is fetched
\* exactly when the page search had a result, the images are searched
\* exactly when no page step gave a URL.
C18_CallOrder ==
    /\ \A i, j \in DOMAIN calls : i < j => CallRank(calls[i]) < CallRank(calls[j])
    /\ (pc = "append" \/ Appended) =>
          /\ Count(calls, "page_search") = 1
          /\ Count(calls, "generate") = 1
          /\ Count(calls, "page_fetch") = 1 <=> last.search.kind = "items"
          /\ Count(calls, "image_search") = 1 <=>
                last.step \notin {"zoom_attr", "og", "img"}

\* a product of quantity 0 for which the page fetch, the image download and
\* the generation failed: all five calls were made, once each
C18_Witness ==
    /\ Appended
    /\ row.quantity = <<"0">>
    /\ calls = <<"page_search", "page_fetch", "image_search", "download", "generate">>
    /\ last.fetch.kind = "timeout"
    /\ last.dl = "status_error"
    /\ last.gen.kind = "error"

\* the first position of the marker in the text
FirstAt(text, marker) == Least({i \in DOMAIN text : text[i] = marker[1]})

\* both markers occur and the first short marker precedes the first long one
MarkersInOrder(text) ==
    /\ HasMarker(text, short_desc_marker)
    /\ HasMarker(text, long_desc_marker)
    /\ FirstAt(text, short_desc_marker) < FirstAt(text, long_desc_marker)

\* C19: generate_ai_descriptions returns parsed text only when the response
\* has both markers in order, the short one before the long one: short is
\* then the trimmed text between the two markers and long the trimmed text
\* after the long marker; in every other case, a marker absent or the long
\* marker before the short one, both fields are the extraction-error
\* placeholders.
C19_ParsedOnlyInOrder ==
    (pc = "append" /\ last.gen.kind = "text") =>
        LET text == last.gen.text
            s == FirstAt(text, short_desc_marker)
            l == FirstAt(text, long_desc_marker)
        IN  IF MarkersInOrder(text)
                THEN descriptions =
                        [short |-> StrStrip(SubSeq(text, s + 1, l - 1)),
                         long_html |-> StrStrip(SubSeq(text, l + 1, Len(text)))]
            ELSE descriptions = ExtractErrorPair

\* C20: a failed download leaves no trace: a call of download_image that
\* returns the download-error sentinel after a request (request error, error
\* status, error while the body is streamed or written) creates and modifies
\* no file; and a file that a call creates or modifies is complete and is
\* the path the call returns.
C20_Step ==
    pc = "download" =>
        /\ (local_image_path' = DOWNLOAD_ERROR /\ calls' # calls) =>
              disk'.files = disk.files
        /\ \A f \in disk'.files \ disk.files :
              /\ f.state = "full"
              /\ local_image_path' = f.path

C20_FailedDownloadNoTrace == [][C20_Step]_vars

====
